---- MODULE Spec2Model ----
(***************************************************************************)
(* Model of src/main.py: a Streamlit page with three features              *)
(* (age_classification, ai_image_detector, is_artificial_detector) that    *)
(* forward an uploaded image to a remote inference endpoint through        *)
(* query_age / query_detector and render the returned label/score list.    *)
(*                                                                         *)
(* One behaviour is one execution of main() for one selection and one      *)
(* upload.  Scores are modelled in hundredths (0.20 is 20).  The display   *)
(* is the sequence of Streamlit calls that produced output.                *)
(***************************************************************************)
EXTENDS Integers, Sequences, FiniteSets

VARIABLES
    HF_TOKEN,    \* module-level token read from the environment (line 12)
    pc,          \* position of the execution inside main / the feature
    selection,   \* sidebar selection (line 167)
    uploaded,    \* what the file uploader returned
    response,    \* the requests.Response of the POST, once there is one
    result,      \* value returned by query_age / query_detector
    display,     \* sequence of outputs written to the page
    posts,       \* number of requests.post calls issued
    escaped      \* exception that left the feature function, if any

vars == <<HF_TOKEN, pc, selection, uploaded, response, result, display, posts, escaped>>

----------------------------------------------------------------------------
(* Bounds and input domains                                                *)

MaxLen == 3

Labels == {"artificial", "human"}
Scores == {15, 20, 25, 75}
StatusCodes == {200, 500}
ContentTypes == {"application/json", "text/html"}
Tokens == {"<unset>", "", "hf_secret"}
Features == {"Age Classification", "AI Image Detector", "Is Image Artificial?"}
Uploads == {"none", "ok", "undecodable", "unencodable"}

Threshold == 20

----------------------------------------------------------------------------
(* JSON values a response body can parse to                                *)

Item == [label : Labels, score : Scores]

SeqUpTo(S, n) == UNION {[1..k -> S] : k \in 0..n}

\* a JSON array of {label, score} objects (possibly empty)
RecordList(items) == [kind |-> "list", items |-> items]
\* a non-empty JSON object such as {"error": "..."}
ErrorObject == [kind |-> "dict", items |-> <<>>]
\* a JSON array of non-objects such as [1]
ScalarList == [kind |-> "scalars", items |-> <<>>]
\* the JSON array [{}]
EmptyRecords == [kind |-> "emptyrecs", items |-> <<>>]
\* Python None
None == [kind |-> "None", items |-> <<>>]

JsonValues ==
    {RecordList(s) : s \in SeqUpTo(Item, MaxLen)} \cup {ErrorObject, ScalarList, EmptyRecords}

\* variant that only tests for None (`if result is not None:`)
TruthyNotNone(v) == v.kind # "None"

\* Python truthiness of a returned value (`if result:`)
Truthy(v) ==
    \/ v.kind = "list" /\ Len(v.items) > 0
    \/ v.kind \in {"dict", "scalars", "emptyrecs"}

\* isinstance(result, list)
IsList(v) == v.kind \in {"list", "scalars", "emptyrecs"}

\* len(result) for the values above
PyLen(v) == IF v.kind = "list" THEN Len(v.items) ELSE IF v.kind = "None" THEN 0 ELSE 1

\* pd.DataFrame(result) raises ValueError for a dict of scalars
DataFrameRaises(v) == v.kind = "dict"

\* df.empty: no rows or no columns
DfEmpty(v) == v.kind = "emptyrecs" \/ (v.kind = "list" /\ Len(v.items) = 0)

\* df['score'] exists
HasScoreColumn(v) == v.kind = "list" /\ Len(v.items) > 0

----------------------------------------------------------------------------
(* Responses                                                               *)

NoResponse ==
    [transport |-> FALSE, status |-> 0, ctype |-> "", parses |-> FALSE, json |-> None]

Responses ==
    {NoResponse}
    \cup [transport : {TRUE}, status : StatusCodes, ctype : ContentTypes,
          parses : {FALSE}, json : {None}]
    \cup [transport : {TRUE}, status : StatusCodes, ctype : ContentTypes,
          parses : {TRUE}, json : JsonValues]

----------------------------------------------------------------------------
(* Exceptions and except-clause dispatch                                   *)

Exc(cls, status) == [cls |-> cls, status |-> status]
NoExc == Exc("none", 0)

\* classes an exception is an instance of (requests.exceptions hierarchy
\* of requests 2.27 and later: the JSONDecodeError raised by Response.json()
\* derives from InvalidJSONError, a RequestException, and from
\* json.JSONDecodeError, a ValueError)
Bases(cls) ==
    CASE cls = "HTTPError" -> {"HTTPError", "RequestException", "OSError"}
      [] cls = "ConnectionError" -> {"ConnectionError", "RequestException", "OSError"}
      [] cls = "JSONDecodeError" ->
            {"JSONDecodeError", "InvalidJSONError", "RequestException", "ValueError", "OSError"}
      [] OTHER -> {cls}

\* index of the first except clause that matches, 0 when none does
Handler(handlers, cls) ==
    IF \E i \in 1..Len(handlers) : handlers[i] \in Bases(cls)
    THEN CHOOSE i \in 1..Len(handlers) :
            /\ handlers[i] \in Bases(cls)
            /\ \A j \in 1..(i - 1) : handlers[j] \notin Bases(cls)
    ELSE 0

\* response.raise_for_status()
RaiseForStatus(r) ==
    IF r.status >= 400 /\ r.status < 600 THEN Exc("HTTPError", r.status) ELSE NoExc

\* response.json()
ResponseJson(r) ==
    IF r.parses THEN [exc |-> NoExc, val |-> r.json]
    ELSE [exc |-> Exc("JSONDecodeError", 0), val |-> None]

----------------------------------------------------------------------------
(* Page output                                                             *)

Entry(w, text) ==
    [w |-> w, text |-> text, status |-> 0, body |-> FALSE, label |-> "", score |-> 0]

\* st.error(f"...: {e}") : the text of an HTTPError names the status code
ErrorWithExc(text, e) == [Entry("error", text) EXCEPT !.status = e.status]

\* st.text(response.text)
RawBody == [Entry("text", "response.text") EXCEPT !.body = TRUE]

\* st.write(f"... **{label}** ... {score:.2f}")
TopLine(text, item) == [Entry("write", text) EXCEPT !.label = item.label, !.score = item.score]

Shown(text) == \E i \in 1..Len(display) : display[i].text = text

----------------------------------------------------------------------------
(* Reductions over a result list                                           *)

RECURSIVE IdxMaxFrom(_, _, _)
\* scan keeping the first position that holds the largest score
IdxMaxFrom(items, i, best) ==
    IF i > Len(items) THEN best
    ELSE IF items[i].score > items[best].score
         THEN IdxMaxFrom(items, i + 1, i)
         ELSE IdxMaxFrom(items, i + 1, best)

RECURSIVE IdxMaxLastFrom(_, _, _)
IdxMaxLastFrom(items, i, best) ==
    IF i > Len(items) THEN best
    ELSE IF items[i].score >= items[best].score
         THEN IdxMaxLastFrom(items, i + 1, i)
         ELSE IdxMaxLastFrom(items, i + 1, best)

\* variant that keeps the last position holding the largest score
IdxMaxLast(items) == IdxMaxLastFrom(items, 2, 1)

\* df['score'].idxmax()
IdxMax(items) == IdxMaxFrom(items, 2, 1)

RECURSIVE ScanArtificial(_, _)
\* the for loop of is_artificial_detector, leaving at the first match
ScanArtificial(items, i) ==
    IF i > Len(items) THEN FALSE
    ELSE IF items[i].label = "artificial" /\ items[i].score > Threshold
         THEN TRUE
         ELSE ScanArtificial(items, i + 1)

RECURSIVE ScanArtificialGe(_, _)
ScanArtificialGe(items, i) ==
    IF i > Len(items) THEN FALSE
    ELSE IF items[i].label = "artificial" /\ items[i].score >= Threshold
         THEN TRUE
         ELSE ScanArtificialGe(items, i + 1)

\* variant that accepts a score equal to the threshold
IsArtificialGe(items) == ScanArtificialGe(items, 1)

IsArtificial(items) == ScanArtificial(items, 1)

----------------------------------------------------------------------------
(* The try blocks of the two query functions, for a response that arrived  *)

Returned(val, out) == [result |-> val, out |-> out]

\* first exception raised by raise_for_status() then json()
StatusOrJsonExc(r) ==
    IF RaiseForStatus(r).cls # "none" THEN RaiseForStatus(r) ELSE ResponseJson(r).exc

\* query_age, lines 30-39
QueryAgeTry(r) ==
    LET e == StatusOrJsonExc(r)
        h == Handler(<<"RequestException", "ValueError">>, e.cls)
    IN  IF e.cls = "none" THEN Returned(ResponseJson(r).val, <<>>)
        ELSE IF h = 1
             THEN Returned(None, <<ErrorWithExc("Error contacting Hugging Face:", e)>>)
             ELSE Returned(None, <<Entry("error", "Error decoding JSON:"), RawBody>>)

\* the except clauses of query_detector, lines 54-62
QueryDetectorExcept(e) ==
    LET h == Handler(<<"HTTPError", "RequestException", "ValueError">>, e.cls)
    IN  IF h = 1 THEN Returned(None, <<ErrorWithExc("HTTP error occurred:", e)>>)
        ELSE IF h = 2 THEN Returned(None, <<ErrorWithExc("Request failed:", e)>>)
        ELSE Returned(None, <<Entry("error", "Response is not valid JSON:"), RawBody>>)

\* variant of the content-type branch that reports but does not return
QueryDetectorTryNoReturn(r) ==
    IF RaiseForStatus(r).cls # "none" THEN QueryDetectorExcept(RaiseForStatus(r))
    ELSE IF r.ctype # "application/json"
         THEN IF ResponseJson(r).exc.cls # "none"
              THEN QueryDetectorExcept(ResponseJson(r).exc)
              ELSE Returned(ResponseJson(r).val,
                            <<Entry("error", "API did not return JSON. Raw response:"), RawBody>>)
    ELSE IF ResponseJson(r).exc.cls # "none" THEN QueryDetectorExcept(ResponseJson(r).exc)
    ELSE Returned(ResponseJson(r).val, <<>>)

\* query_detector after the POST returned, lines 44-62
QueryDetectorTry(r) ==
    IF RaiseForStatus(r).cls # "none" THEN QueryDetectorExcept(RaiseForStatus(r))
    ELSE IF r.ctype # "application/json"
         THEN Returned(None, <<Entry("error", "API did not return JSON. Raw response:"), RawBody>>)
    ELSE IF ResponseJson(r).exc.cls # "none" THEN QueryDetectorExcept(ResponseJson(r).exc)
    ELSE Returned(ResponseJson(r).val, <<>>)

----------------------------------------------------------------------------
(* State machine                                                           *)

\* `not HF_TOKEN`
TokenMissing == HF_TOKEN \in {"<unset>", ""}

Say(out) == display' = display \o out

Raise(cls) == /\ escaped' = Exc(cls, 0)
              /\ pc' = "crashed"

Init ==
    /\ HF_TOKEN \in Tokens
    /\ pc = "main"
    /\ selection = ""
    /\ uploaded = "none"
    /\ response = NoResponse
    /\ result = None
    /\ display = <<>>
    /\ posts = 0
    /\ escaped = NoExc

\* main: the sidebar selection and the file uploader of the selected feature
Main ==
    /\ pc = "main"
    /\ \E f \in Features, up \in Uploads :
          /\ selection' = f
          /\ uploaded' = up
          /\ pc' = IF up = "none" THEN "done"
                   ELSE IF f = "Age Classification" THEN "age_open" ELSE "det_read"
    /\ UNCHANGED <<HF_TOKEN, response, result, display, posts, escaped>>

\* age_classification: Image.open and st.image
AgeOpen ==
    /\ pc = "age_open"
    /\ IF uploaded = "undecodable"
       THEN /\ Raise("UnidentifiedImageError")
            /\ UNCHANGED display
       ELSE /\ Say(<<Entry("image", "Uploaded Image.")>>)
            /\ pc' = "age_token"
            /\ UNCHANGED escaped
    /\ UNCHANGED <<HF_TOKEN, selection, uploaded, response, result, posts>>

\* age_classification: the token check
AgeTokenCheck ==
    /\ pc = "age_token"
    /\ IF TokenMissing
       THEN /\ Say(<<Entry("error", "Hugging Face API token not found!")>>)
            /\ pc' = "done"
       ELSE /\ pc' = "age_encode"
            /\ UNCHANGED display
    /\ UNCHANGED <<HF_TOKEN, selection, uploaded, response, result, posts, escaped>>

\* query_age: convert to RGB and save as JPEG, outside any try
QueryAgeEncode ==
    /\ pc = "age_encode"
    /\ IF uploaded = "unencodable"
       THEN Raise("OSError")
       ELSE /\ pc' = "age_post"
            /\ UNCHANGED escaped
    /\ UNCHANGED <<HF_TOKEN, selection, uploaded, response, result, display, posts>>

\* query_age: requests.post, outside any try
QueryAgePost ==
    /\ pc = "age_post"
    /\ posts' = posts + 1
    /\ \E r \in Responses :
          IF ~r.transport
          THEN /\ Raise("ConnectionError")
               /\ UNCHANGED response
          ELSE /\ response' = r
               /\ pc' = "age_parse"
               /\ UNCHANGED escaped
    /\ UNCHANGED <<HF_TOKEN, selection, uploaded, result, display>>

\* query_age: the try block and its except clauses
QueryAgeParse ==
    /\ pc = "age_parse"
    /\ result' = QueryAgeTry(response).result
    /\ Say(QueryAgeTry(response).out)
    /\ pc' = "age_render"
    /\ UNCHANGED <<HF_TOKEN, selection, uploaded, response, posts, escaped>>

\* age_classification: display of the result
AgeRender ==
    /\ pc = "age_render"
    /\ IF Truthy(result) /\ IsList(result) /\ PyLen(result) > 0
       THEN IF HasScoreColumn(result)
            THEN /\ Say(<<Entry("write", "API Response:"), Entry("table", "df"),
                          TopLine("The person in the image is likely in the age group:",
                                  result.items[IdxMax(result.items)])>>)
                 /\ pc' = "done"
                 /\ UNCHANGED escaped
            ELSE /\ Say(<<Entry("write", "API Response:"), Entry("table", "df")>>)
                 /\ Raise("KeyError")
       ELSE /\ Say(<<Entry("write",
                       "An error occurred while processing the image. Please try again.")>>)
            /\ pc' = "done"
            /\ UNCHANGED escaped
    /\ UNCHANGED <<HF_TOKEN, selection, uploaded, response, result, posts>>

\* ai_image_detector / is_artificial_detector: st.image and uploaded_file.read()
DetectorRead ==
    /\ pc = "det_read"
    /\ Say(<<Entry("image", "Uploaded Image.")>>)
    /\ pc' = "det_post"
    /\ UNCHANGED <<HF_TOKEN, selection, uploaded, response, result, posts, escaped>>

RenderPc == IF selection = "AI Image Detector" THEN "det_render" ELSE "art_render"

\* variant that posts again after a transport failure
QueryDetectorPostRetry ==
    /\ pc = "det_post"
    /\ posts' = posts + 1
    /\ \E r \in Responses :
          IF ~r.transport
          THEN /\ result' = None
               /\ Say(QueryDetectorExcept(Exc("ConnectionError", 0)).out)
               /\ pc' = "det_post"
               /\ UNCHANGED response
          ELSE /\ response' = r
               /\ pc' = "det_validate"
               /\ UNCHANGED <<result, display>>
    /\ UNCHANGED <<HF_TOKEN, selection, uploaded, escaped>>

\* query_detector: requests.post inside the try
QueryDetectorPost ==
    /\ pc = "det_post"
    /\ posts' = posts + 1
    /\ \E r \in Responses :
          IF ~r.transport
          THEN /\ result' = QueryDetectorExcept(Exc("ConnectionError", 0)).result
               /\ Say(QueryDetectorExcept(Exc("ConnectionError", 0)).out)
               /\ pc' = RenderPc
               /\ UNCHANGED response
          ELSE /\ response' = r
               /\ pc' = "det_validate"
               /\ UNCHANGED <<result, display>>
    /\ UNCHANGED <<HF_TOKEN, selection, uploaded, escaped>>

\* query_detector: status, content type and body checks
QueryDetectorValidate ==
    /\ pc = "det_validate"
    /\ result' = QueryDetectorTry(response).result
    /\ Say(QueryDetectorTry(response).out)
    /\ pc' = RenderPc
    /\ UNCHANGED <<HF_TOKEN, selection, uploaded, response, posts, escaped>>

\* ai_image_detector: display of the result
DetectorRender ==
    /\ pc = "det_render"
    /\ IF Truthy(result)
       THEN IF DataFrameRaises(result)
            THEN /\ Raise("ValueError")
                 /\ UNCHANGED display
            ELSE IF DfEmpty(result)
            THEN /\ Say(<<Entry("write", "API Response:"), Entry("table", "df"),
                          Entry("write", "No results to display.")>>)
                 /\ pc' = "done"
                 /\ UNCHANGED escaped
            ELSE IF HasScoreColumn(result)
            THEN /\ Say(<<Entry("write", "API Response:"), Entry("table", "df"),
                          TopLine("The image is likely", result.items[IdxMax(result.items)])>>)
                 /\ pc' = "done"
                 /\ UNCHANGED escaped
            ELSE /\ Say(<<Entry("write", "API Response:"), Entry("table", "df")>>)
                 /\ Raise("KeyError")
       ELSE /\ Say(<<Entry("write", "Failed to get a valid response from the API.")>>)
            /\ pc' = "done"
            /\ UNCHANGED escaped
    /\ UNCHANGED <<HF_TOKEN, selection, uploaded, response, result, posts>>

\* is_artificial_detector: the verdict
ArtificialRender ==
    /\ pc = "art_render"
    /\ IF Truthy(result)
       THEN IF result.kind = "list"
            THEN /\ Say(<<Entry("write",
                            IF IsArtificial(result.items)
                            THEN "The image may be artificially generated."
                            ELSE "The image is likely human.")>>)
                 /\ pc' = "done"
                 /\ UNCHANGED escaped
            ELSE /\ Raise(IF result.kind = "emptyrecs" THEN "KeyError" ELSE "TypeError")
                 /\ UNCHANGED display
       ELSE /\ Say(<<Entry("write", "Failed to get a valid response from the API.")>>)
            /\ pc' = "done"
            /\ UNCHANGED escaped
    /\ UNCHANGED <<HF_TOKEN, selection, uploaded, response, result, posts>>

Next ==
    \/ Main
    \/ AgeOpen
    \/ AgeTokenCheck
    \/ QueryAgeEncode
    \/ QueryAgePost
    \/ QueryAgeParse
    \/ AgeRender
    \/ DetectorRead
    \/ QueryDetectorPost
    \/ QueryDetectorValidate
    \/ DetectorRender
    \/ ArtificialRender

Spec == Init /\ [][Next]_vars

----------------------------------------------------------------------------
(* Vocabulary of the properties                                            *)

Age == "Age Classification"
Detector == "AI Image Detector"
Artificial == "Is Image Artificial?"

\* the query function has returned to the feature
QueryEnded == pc \in {"age_render", "det_render", "art_render"}

QueryErrorTexts ==
    {"Error contacting Hugging Face:", "Error decoding JSON:", "HTTP error occurred:",
     "Request failed:", "Response is not valid JSON:", "API did not return JSON. Raw response:"}

FailureLines ==
    {"Failed to get a valid response from the API.",
     "An error occurred while processing the image. Please try again."}

QueryErrorShown ==
    \E i \in 1..Len(display) : display[i].w = "error" /\ display[i].text \in QueryErrorTexts

FailureLineShown == \E i \in 1..Len(display) : display[i].text \in FailureLines

TopShown == \E i \in 1..Len(display) : display[i].label # ""

TableShown == \E i \in 1..Len(display) : display[i].w = "table"

PositiveShown == Shown("The image may be artificially generated.")

NegativeShown == Shown("The image is likely human.")

RawBodyShown == \E i \in 1..Len(display) : display[i].body

StatusShown(code) == \E i \in 1..Len(display) : display[i].w = "error" /\ display[i].status = code

NonEmptyRecords == result.kind = "list" /\ Len(result.items) > 0

----------------------------------------------------------------------------
(* Properties                                                              *)

\* C1: in every feature, when the token is absent or empty no POST is issued
\* and an upload ends with the configuration error on the page.
C1_NoPostWithoutToken ==
    TokenMissing =>
        /\ posts = 0
        /\ (pc = "done" /\ uploaded # "none" =>
                Shown("Hugging Face API token not found!"))

\* C2: for an image that opens, whatever the request brings, no exception
\* leaves age_classification, ai_image_detector or is_artificial_detector.
C2_NoExceptionEscapes ==
    uploaded \in {"ok", "unencodable"} => escaped = NoExc /\ pc # "crashed"

\* C3: in is_artificial_detector, for a non-empty list of label/score records
\* the verdict is positive exactly when some entry is labelled "artificial"
\* with a score above 0.20, wherever it stands and whatever the others score.
C3_VerdictIffArtificialAboveThreshold ==
    (pc = "done" /\ selection = Artificial /\ NonEmptyRecords) =>
        LET hit == \E i \in 1..Len(result.items) :
                      result.items[i].label = "artificial" /\ result.items[i].score > 20
        IN  /\ PositiveShown <=> hit
            /\ NegativeShown <=> ~hit

C3_Witness ==
    /\ pc = "done"
    /\ selection = Artificial
    /\ result.kind = "list"
    /\ result.items = <<[label |-> "human", score |-> 75], [label |-> "artificial", score |-> 25]>>
    /\ PositiveShown

\* C4: in age_classification and ai_image_detector, for a non-empty list of
\* records the highlighted entry is an entry of the list with the largest
\* score, and among entries sharing that score the one of smallest index.
C4_TopIsFirstMaximum ==
    (pc = "done" /\ selection \in {Age, Detector} /\ NonEmptyRecords) =>
        \E i \in 1..Len(display) :
            /\ display[i].label # ""
            /\ \A j \in 1..Len(display) : display[j].label # "" => j = i
            /\ \E k \in 1..Len(result.items) :
                  /\ result.items[k].label = display[i].label
                  /\ result.items[k].score = display[i].score
                  /\ \A j \in 1..Len(result.items) :
                        result.items[j].score <= result.items[k].score
                  /\ \A j \in 1..(k - 1) :
                        result.items[j].score < result.items[k].score

C4_Witness ==
    /\ pc = "done"
    /\ selection = Age
    /\ result.kind = "list"
    /\ result.items = <<[label |-> "human", score |-> 75], [label |-> "artificial", score |-> 75]>>
    /\ \E i \in 1..Len(display) : display[i].label = "human" /\ display[i].score = 75

\* C5: on both endpoints the checks run in the order transport, status,
\* content type, body: a non-success response is reported as a status error,
\* and a success response whose content type is not JSON is reported as
\* unexpected content with the raw body and never returned as a result.
C5_ChecksInOrder ==
    (QueryEnded /\ response.transport) =>
        /\ (response.status >= 400 => StatusShown(response.status) /\ result = None)
        /\ (response.status < 400 /\ response.ctype # "application/json" =>
                /\ result = None
                /\ Shown("API did not return JSON. Raw response:")
                /\ RawBodyShown)

\* C6: a success response of JSON content type whose body does not parse
\* takes the "not valid JSON" / "Error decoding JSON" branch and the raw
\* body is displayed.
C6_MalformedBodyBranch ==
    (QueryEnded /\ response.transport /\ response.status < 400
        /\ response.ctype = "application/json" /\ ~response.parses) =>
        /\ Shown("Error decoding JSON:") \/ Shown("Response is not valid JSON:")
        /\ RawBodyShown
        /\ result = None

\* C7: a response of non-success status fails with a message that carries
\* both the status code and the response body.
C7_StatusErrorCarriesBody ==
    (QueryEnded /\ response.transport /\ response.status >= 400) =>
        /\ StatusShown(response.status)
        /\ RawBodyShown

\* C8 as stated: an empty result list ends without exception and without
\* argmax, with "No results to display." and no failure line.
C8_EmptyShowsNoResults ==
    (pc \in {"done", "crashed"} /\ result = RecordList(<<>>)) =>
        /\ pc = "done"
        /\ ~TopShown
        /\ Shown("No results to display.")
        /\ ~FailureLineShown

\* C8 amended: an empty result list ends without exception and without
\* argmax or verdict, and the page shows the feature's failure line, not
\* "No results to display.".
C8_EmptyShowsFailureLine ==
    (pc \in {"done", "crashed"} /\ result = RecordList(<<>>)) =>
        /\ pc = "done"
        /\ escaped = NoExc
        /\ ~TopShown /\ ~TableShown /\ ~PositiveShown /\ ~NegativeShown
        /\ ~Shown("No results to display.")
        /\ FailureLineShown

C8_Witness ==
    /\ pc = "done"
    /\ selection = Detector
    /\ response.transport /\ response.parses
    /\ result = RecordList(<<>>)
    /\ Shown("Failed to get a valid response from the API.")

\* C9: an execution issues at most one POST; after the POST, whatever its
\* outcome, no step issues another.
C9_AtMostOnePost ==
    [][posts' <= 1 /\ (posts >= 1 => posts' = posts)]_vars

C9_Witness ==
    /\ pc = "done"
    /\ posts = 1
    /\ QueryErrorShown
    /\ FailureLineShown

\* C10: a prediction or verdict appears only for a parsed non-empty result
\* with no query error reported; a query that reported an error returned
\* None, and the feature then ends with the failure line only.
C10_ErrorAndSuccessExclusive ==
    /\ (TopShown \/ PositiveShown \/ NegativeShown) =>
            (Truthy(result) /\ result # None /\ ~QueryErrorShown)
    /\ QueryErrorShown => (result = None /\ pc # "crashed")
    /\ (QueryErrorShown /\ pc = "done") =>
            /\ FailureLineShown
            /\ ~TopShown /\ ~TableShown /\ ~PositiveShown /\ ~NegativeShown
            /\ ~Shown("No results to display.")

C10_Witness ==
    /\ pc = "done"
    /\ selection = Artificial
    /\ response.transport /\ response.status = 200 /\ response.ctype = "text/html"
    /\ QueryErrorShown
    /\ Shown("Failed to get a valid response from the API.")
====
